---- MODULE Spec2Model ----
(***************************************************************************)
(* A model of src/src/components/YouTubeDownloader.jsx: the component's    *)
(* React state, the format normalizer computed at every render, and the    *)
(* two asynchronous handlers handleFetch and handleDownload together with  *)
(* the endpoints and the deadline timer they wait on.                      *)
(*                                                                         *)
(* JavaScript values are strings here.  A number is written as its decimal *)
(* string (the domains hold no zero), and a missing property is Undef.     *)
(***************************************************************************)
EXTENDS Integers, Sequences, FiniteSets, TLC

VARIABLES
    url,            \* useState("")     : the text of the URL field
    videoData,      \* useState(null)   : the metadata slot
    loading,        \* useState(false)
    tab,            \* useState(0)
    downloadingMap, \* useState({})     : the task registry, id -> busy flag
    error,          \* useState("")
    videoFormats,   \* the video list computed by the latest render
    audioFormats,   \* the audio list computed by the latest render
    fetches,        \* the handleFetch calls awaiting axios.post, by slot
    calls,          \* the handleDownload calls that have not settled, by slot
    saved,          \* the file name the latest step handed to link.click()
    sent,           \* the request the latest step sent to the download endpoint
    lastEvent       \* the answer of an endpoint or of the timer in the latest step

vars == <<url, videoData, loading, tab, downloadingMap, error, videoFormats,
          audioFormats, fetches, calls, saved, sent, lastEvent>>

(***************************************************************************)
(* Bounds of the model.                                                    *)
(***************************************************************************)
MaxLen == 3        \* longest raw format list given to normalizeFormats
MaxFetch == 2      \* handleFetch calls outstanding at once
MaxCalls == 2      \* handleDownload calls outstanding at once

(***************************************************************************)
(* JavaScript values.                                                      *)
(***************************************************************************)
Undef == "<undefined>"

\* !!v for the values of the model: undefined and "" are falsy.
Truthy(v) == v \notin {Undef, ""}

\* `${v}` inside a template literal.
ToStr(v) == IF v = Undef THEN "undefined" ELSE v

\* a || b
OrElse(a, b) == IF Truthy(a) THEN a ELSE b

\* a ?? b
Coalesce(a, b) == IF a # Undef THEN a ELSE b

\* s.includes(t)
Includes(s, t) ==
    \E i \in 1..(Len(s) - Len(t) + 1) : SubSeq(s, i, i + Len(t) - 1) = t

\* A test that takes only the empty string for blank.
IsEmpty(s) == s = ""

\* !s.trim() : the string is empty or holds white space only.
IsBlank(s) == \A i \in 1..Len(s) : SubSeq(s, i, i) = " "

(***************************************************************************)
(* Format records, as the info endpoint sends them.                        *)
(***************************************************************************)
Format(id, ty, ext, ql, abr, height) ==
    [format_id |-> id, type |-> ty, ext |-> ext, qualityLabel |-> ql,
     abr |-> abr, height |-> height, vcodec |-> Undef, acodec |-> Undef]

\* A classification with the results of its two marker tests transposed.
ClassifyTransposed(f) ==
    LET hasVideo == f.type = "video" \/ Truthy(f.height) \/ Truthy(f.vcodec)
        hasAudio == f.type = "audio" \/ Truthy(f.abr) \/ Truthy(f.acodec)
    IN  IF hasVideo /\ ~hasAudio THEN "audio"
        ELSE IF hasAudio /\ ~hasVideo THEN "video"
        ELSE OrElse(f.type, "video")

\* normalizeFormats, lines 40-47: the type each entry gets.
ClassifyType(f) ==
    LET hasVideo == f.type = "video" \/ Truthy(f.height) \/ Truthy(f.vcodec)
        hasAudio == f.type = "audio" \/ Truthy(f.abr) \/ Truthy(f.acodec)
    IN  IF hasVideo /\ ~hasAudio THEN "video"
        ELSE IF hasAudio /\ ~hasVideo THEN "audio"
        ELSE OrElse(f.type, "video")

withTypes(list) ==
    [i \in 1..Len(list) |-> [list[i] EXCEPT !.type = ClassifyType(list[i])]]

\* normalizeFormats, lines 50-52.
keyOf(f) ==
    Coalesce(f.format_id,
             ToStr(f.type) \o "|" \o ToStr(f.ext) \o "|"
               \o OrElse(f.qualityLabel, "") \o "|" \o OrElse(f.abr, "")
               \o "|" \o OrElse(f.height, ""))

\* A filter that forgets all keys but the latest one it has added.
RECURSIVE FilterAdjacent(_, _, _)
FilterAdjacent(list, i, seen) ==
    IF i > Len(list) THEN <<>>
    ELSE LET k == keyOf(list[i])
         IN  IF k \in seen THEN FilterAdjacent(list, i + 1, seen)
             ELSE <<list[i]>> \o FilterAdjacent(list, i + 1, {k})

\* A filter that keeps the last entry of each key instead of the first.
RECURSIVE FilterLastWins(_, _, _)
FilterLastWins(list, i, seen) ==
    IF i > Len(list) THEN <<>>
    ELSE IF \E j \in (i + 1)..Len(list) : keyOf(list[j]) = keyOf(list[i])
         THEN FilterLastWins(list, i + 1, seen)
         ELSE <<list[i]>> \o FilterLastWins(list, i + 1, seen)

\* normalizeFormats, lines 49 and 54-59: the filter over withTypes, entry i
\* onwards, with the keys `seen` so far.
RECURSIVE FilterSeen(_, _, _)
FilterSeen(list, i, seen) ==
    IF i > Len(list) THEN <<>>
    ELSE LET k == keyOf(list[i])
         IN  IF k \in seen THEN FilterSeen(list, i + 1, seen)
             ELSE <<list[i]>> \o FilterSeen(list, i + 1, seen \cup {k})

\* The metadata slot: tag "null" is null; an object has a title and, when
\* hasFormats, the array formats (Array.isArray(raw) ? raw : []).
NullData == [tag |-> "null", title |-> Undef, hasFormats |-> FALSE, formats |-> <<>>]
EmptyObject == [tag |-> "object", title |-> Undef, hasFormats |-> FALSE, formats |-> <<>>]
Metadata(title, raw) == [tag |-> "object", title |-> title, hasFormats |-> TRUE, formats |-> raw]

\* normalizeFormats(videoData?.formats), lines 38-60.
normalizeFormats(vd) ==
    LET list == IF vd.hasFormats THEN vd.formats ELSE <<>>
    IN  FilterSeen(withTypes(list), 1, {})

IsVideo(f) == f.type = "video"
IsAudio(f) == f.type = "audio"

\* lines 62-63
VideoFormatsOf(vd) == SelectSeq(normalizeFormats(vd), IsVideo)
AudioFormatsOf(vd) == SelectSeq(normalizeFormats(vd), IsAudio)

(***************************************************************************)
(* The environment: what the user types and what the endpoints answer.     *)
(***************************************************************************)
Urls == {"", " ", "u1"}

\* The info endpoint's title for a video URL.
TitleOf(u) == IF u = "u1" THEN "A" ELSE "B" \o u

\* The formats the info endpoint lists: two video entries without a
\* format_id that differ in height only, and one audio entry with one.
InfoFormats ==
    << Format(Undef, "video", "mp4", Undef, Undef, "720"),
       Format(Undef, "video", "mp4", Undef, Undef, "1080"),
       Format("140", "audio", "m4a", Undef, "128", Undef) >>

\* The texts a server puts in an error field.
ServerMessages == {"Video unavailable", "Upstream Network Error"}

\* What axios.post can come back with.  kind "data" is a resolved promise
\* whose res.data has the fields present (hasFormats, errorText # Undef);
\* the other kinds are rejections: "timeout" (code ECONNABORTED), "http"
\* (err.response.data.error = errorText) and "network".
InfoAnswer(kind, hasFormats, errorText) ==
    [kind |-> kind, hasFormats |-> hasFormats, errorText |-> errorText]

InfoAnswers ==
    {InfoAnswer("data", TRUE, Undef)}
      \cup {InfoAnswer("data", FALSE, m) : m \in ServerMessages \cup {Undef}}
      \cup {InfoAnswer("http", FALSE, m) : m \in ServerMessages \cup {Undef}}
      \cup {InfoAnswer("timeout", FALSE, Undef), InfoAnswer("network", FALSE, Undef)}

\* What the download endpoint can answer with once the request is out.
Statuses == {"200", "500"}
StatusText(s) == IF s = "200" THEN "OK" ELSE "Internal Server Error"
BodySizes == {"0", "1"}

(***************************************************************************)
(* The error object a failure raises: err.name, err.code, err.message and  *)
(* err.response?.data?.error.                                              *)
(***************************************************************************)
Err(name, code, message, responseError) ==
    [name |-> name, code |-> code, message |-> message,
     responseError |-> responseError]

\* handleFetch, lines 75-88: the error the try block ends with for an answer
\* that is not a success.
FetchThrown(ans) ==
    CASE ans.kind = "timeout" ->
           Err("AxiosError", "ECONNABORTED", "timeout of 30000ms exceeded", Undef)
      [] ans.kind = "network" ->
           Err("AxiosError", "ERR_NETWORK", "Network Error", Undef)
      [] ans.kind = "http" ->
           Err("AxiosError", "ERR_BAD_RESPONSE",
               "Request failed with status code 500", ans.errorText)
      [] OTHER ->
           IF Truthy(ans.errorText)
           THEN Err("Error", Undef, ans.errorText, Undef)
           ELSE Err("Error", Undef, "No video data received from server", Undef)

\* handleFetch, lines 92-101.
FetchErrorMessage(err) ==
    "Failed to fetch video info. " \o
      (IF err.code = "ECONNABORTED" THEN "Request timeout. Please try again."
       ELSE IF Truthy(err.responseError) THEN err.responseError
       ELSE IF Includes(err.message, "Network Error")
            THEN "Cannot connect to server. Check your internet connection."
       ELSE "Please check the URL and try again.")

\* handleDownload, lines 170-174.
DownloadErrorMessage(err) ==
    IF err.name = "AbortError"
    THEN "Download timeout. The video might be too large."
    ELSE "Download failed: " \o err.message

(***************************************************************************)
(* The task registry.                                                      *)
(***************************************************************************)
\* lines 116 and 182: the key of a format in downloadingMap.
downloadId(f) ==
    OrElse(f.format_id,
           ToStr(f.type) \o "-" \o ToStr(f.ext) \o "-" \o OrElse(f.qualityLabel, ""))

\* { ...prev, [id]: v }
MapSet(m, id, v) == [k \in DOMAIN m \cup {id} |-> IF k = id THEN v ELSE m[k]]

\* downloadingMap[id], read for its truth value.
IsDownloading(m, id) == id \in DOMAIN m /\ m[id]

(***************************************************************************)
(* The calls in progress.                                                  *)
(***************************************************************************)
FetchSlots == 1..MaxFetch
CallSlots == 1..MaxCalls

FreeFetch == [st |-> "free", url |-> ""]

NoFormat == Format(Undef, Undef, Undef, Undef, Undef, Undef)

\* A handleDownload call past line 136: the format it was given, the title
\* of the render whose closure it runs in, the state of its deadline timer,
\* and whether 120 s have passed since it set the timer.
FreeCall ==
    [st |-> "free", format |-> NoFormat, title |-> Undef,
     timer |-> "none", late |-> FALSE]

NoEvent == [src |-> "none", kind |-> "none", id |-> "", text |-> ""]
Event(src, kind, id, text) ==
    [src |-> src, kind |-> kind, id |-> id, text |-> text]

\* The parameters of the request handleDownload builds, lines 123-125.
NoRequest == [url |-> Undef, format_id |-> Undef, title |-> Undef, type |-> Undef]
RequestOf(format, u, title) ==
    [url |-> u, format_id |-> Coalesce(format.format_id, ""),
     title |-> OrElse(title, "video"), type |-> format.type]

\* lines 152-153
FileName(c) ==
    OrElse(c.title, "video") \o "." \o
      (IF c.format.type = "audio" THEN "mp3" ELSE "mp4")

Init ==
    /\ url = ""
    /\ videoData = NullData
    /\ loading = FALSE
    /\ tab = 0
    /\ downloadingMap = [k \in {} |-> FALSE]
    /\ error = ""
    /\ videoFormats = <<>>
    /\ audioFormats = <<>>
    /\ fetches = [s \in FetchSlots |-> FreeFetch]
    /\ calls = [c \in CallSlots |-> FreeCall]
    /\ saved = Undef
    /\ sent = NoRequest
    /\ lastEvent = NoEvent

\* The render that follows a change of the metadata slot, lines 62-63.
Render(vd) ==
    /\ videoFormats' = VideoFormatsOf(vd)
    /\ audioFormats' = AudioFormatsOf(vd)

\* What a step that is no answer of an endpoint leaves in the two logs.
UserStep == saved' = Undef /\ sent' = NoRequest /\ lastEvent' = NoEvent

\* TextField onChange, line 225.
EditUrl(u) ==
    /\ u # url
    /\ url' = u
    /\ UserStep
    /\ UNCHANGED <<videoData, loading, tab, downloadingMap, error,
                   videoFormats, audioFormats, fetches, calls>>

\* Is the block of lines 241-339 on screen?
ResultsShown == videoData.tag = "object" /\ Truthy(videoData.title)

\* Tabs onChange, line 256.
SetTab(v) ==
    /\ ResultsShown
    /\ v # tab
    /\ tab' = v
    /\ UserStep
    /\ UNCHANGED <<url, videoData, loading, downloadingMap, error,
                   videoFormats, audioFormats, fetches, calls>>

\* handleFetch, lines 66-80: up to the await of axios.post.  lastEvent
\* records the call and the url it was made with.
handleFetch ==
    /\ lastEvent' = Event("user", "handleFetch", url, "")
    /\ saved' = Undef
    /\ sent' = NoRequest
    /\ IF IsBlank(url)
       THEN UNCHANGED <<url, videoData, loading, tab, downloadingMap, error,
                        videoFormats, audioFormats, fetches, calls>>
       ELSE /\ \E s \in FetchSlots :
                 /\ fetches[s].st = "free"
                 /\ \A t \in FetchSlots : t < s => fetches[t].st # "free"
                 /\ fetches' = [fetches EXCEPT ![s] = [st |-> "pending", url |-> url]]
            /\ loading' = TRUE
            /\ videoData' = NullData
            /\ error' = ""
            /\ Render(NullData)
            /\ UNCHANGED <<url, tab, downloadingMap, calls>>

\* The Fetch button, line 230.
ClickFetch ==
    /\ ~loading
    /\ ~IsBlank(url)
    /\ handleFetch

\* handleEnter, lines 110-112.
PressEnter == handleFetch

\* A handler that drops an answer when the slot already holds one.
FetchSettlesFirstWins(s, ans, raw) ==
    /\ fetches[s].st = "pending"
    /\ fetches' = [fetches EXCEPT ![s] = FreeFetch]
    /\ lastEvent' = Event("info", ans.kind, fetches[s].url,
                          IF ans.hasFormats THEN "formats" ELSE ans.errorText)
    /\ IF videoData # NullData
       THEN UNCHANGED <<videoData, videoFormats, audioFormats, error>>
       ELSE IF ans.kind = "data" /\ ans.hasFormats
            THEN /\ videoData' = Metadata(TitleOf(fetches[s].url), raw)
                 /\ Render(Metadata(TitleOf(fetches[s].url), raw))
                 /\ UNCHANGED error
            ELSE /\ error' = FetchErrorMessage(FetchThrown(ans))
                 /\ videoData' = EmptyObject
                 /\ Render(EmptyObject)
    /\ loading' = FALSE
    /\ saved' = Undef
    /\ sent' = NoRequest
    /\ UNCHANGED <<url, tab, downloadingMap, calls>>

\* A handler whose failure path empties the task registry as well.
FetchSettlesResetsTasks(s, ans, raw) ==
    /\ fetches[s].st = "pending"
    /\ fetches' = [fetches EXCEPT ![s] = FreeFetch]
    /\ lastEvent' = Event("info", ans.kind, fetches[s].url,
                          IF ans.hasFormats THEN "formats" ELSE ans.errorText)
    /\ IF ans.kind = "data" /\ ans.hasFormats
       THEN /\ videoData' = Metadata(TitleOf(fetches[s].url), raw)
            /\ Render(Metadata(TitleOf(fetches[s].url), raw))
            /\ UNCHANGED <<error, downloadingMap>>
       ELSE /\ error' = FetchErrorMessage(FetchThrown(ans))
            /\ videoData' = EmptyObject
            /\ Render(EmptyObject)
            /\ downloadingMap' = [k \in {} |-> FALSE]
    /\ loading' = FALSE
    /\ saved' = Undef
    /\ sent' = NoRequest
    /\ UNCHANGED <<url, tab, calls>>

\* handleFetch, lines 82-107: axios.post settles with answer ans; raw is the
\* formats array of an answer that holds one.
FetchSettles(s, ans, raw) ==
    /\ fetches[s].st = "pending"
    /\ fetches' = [fetches EXCEPT ![s] = FreeFetch]
    /\ lastEvent' = Event("info", ans.kind, fetches[s].url,
                          IF ans.hasFormats THEN "formats" ELSE ans.errorText)
    /\ IF ans.kind = "data" /\ ans.hasFormats
       THEN /\ videoData' = Metadata(TitleOf(fetches[s].url), raw)
            /\ Render(Metadata(TitleOf(fetches[s].url), raw))
            /\ UNCHANGED error
       ELSE /\ error' = FetchErrorMessage(FetchThrown(ans))
            /\ videoData' = EmptyObject
            /\ Render(EmptyObject)
    /\ loading' = FALSE
    /\ saved' = Undef
    /\ sent' = NoRequest
    /\ UNCHANGED <<url, tab, downloadingMap, calls>>

(***************************************************************************)
(* Downloads.                                                              *)
(***************************************************************************)
\* The rows on screen, lines 261-337: the formats of the selected tab.
RowsShown ==
    IF ~ResultsShown THEN {}
    ELSE IF tab = 0 THEN {videoFormats[i] : i \in 1..Len(videoFormats)}
    ELSE {audioFormats[i] : i \in 1..Len(audioFormats)}

\* A cell that shows its button whatever the registry holds.
ButtonAlwaysShown(format) == TRUE

\* DownloadCell, lines 182-200: the cell of `format` shows the button, and
\* not the spinner.
ButtonShown(format) == ~IsDownloading(downloadingMap, downloadId(format))

\* handleDownload, lines 115-136: up to the await of fetch.
handleDownload(format) ==
    /\ \E c \in CallSlots :
         /\ calls[c].st = "free"
         /\ \A d \in CallSlots : d < c => calls[d].st # "free"
         /\ calls' = [calls EXCEPT ![c] =
                        [st |-> "waiting", format |-> format,
                         title |-> videoData.title, timer |-> "armed",
                         late |-> FALSE]]
    /\ downloadingMap' = MapSet(downloadingMap, downloadId(format), TRUE)
    /\ error' = ""
    /\ sent' = RequestOf(format, url, videoData.title)
    /\ saved' = Undef
    /\ lastEvent' = NoEvent
    /\ UNCHANGED <<url, videoData, loading, tab, videoFormats, audioFormats,
                   fetches>>

\* The Download button of a row, lines 192-200.
ClickDownload(format) ==
    /\ format \in RowsShown
    /\ ButtonShown(format)
    /\ videoData.tag # "null"
    /\ handleDownload(format)

\* A finally block that leaves the registry as it is.
SettleKeepBusy(c, err, fileName) ==
    /\ calls' = [calls EXCEPT ![c] = FreeCall]
    /\ error' = IF err.name = "none" THEN error ELSE DownloadErrorMessage(err)
    /\ saved' = fileName
    /\ sent' = NoRequest
    /\ UNCHANGED downloadingMap
    /\ UNCHANGED <<url, videoData, loading, tab, videoFormats, audioFormats,
                   fetches>>

\* A finally block that stores a registry holding the call's key alone.
SettleResetsAll(c, err, fileName) ==
    /\ calls' = [calls EXCEPT ![c] = FreeCall]
    /\ error' = IF err.name = "none" THEN error ELSE DownloadErrorMessage(err)
    /\ saved' = fileName
    /\ sent' = NoRequest
    /\ downloadingMap' = [k \in {downloadId(calls[c].format)} |-> FALSE]
    /\ UNCHANGED <<url, videoData, loading, tab, videoFormats, audioFormats,
                   fetches>>

\* handleDownload, lines 168-177: the call in slot c leaves the try block,
\* with the error err or, when err.name is "none", after saving fileName.
Settle(c, err, fileName) ==
    /\ calls' = [calls EXCEPT ![c] = FreeCall]
    /\ error' = IF err.name = "none" THEN error ELSE DownloadErrorMessage(err)
    /\ saved' = fileName
    /\ sent' = NoRequest
    /\ downloadingMap' = MapSet(downloadingMap, downloadId(calls[c].format), FALSE)
    /\ UNCHANGED <<url, videoData, loading, tab, videoFormats, audioFormats,
                   fetches>>

NoErr == Err("none", Undef, "", Undef)

\* handleDownload, lines 133-142: fetch resolves with the response's status.
Headers(c, status) ==
    /\ calls[c].st = "waiting"
    /\ lastEvent' = Event("download", "status", downloadId(calls[c].format), status)
    /\ IF status = "200"
       THEN /\ calls' = [calls EXCEPT ![c].st = "reading", ![c].timer = "cleared"]
            /\ saved' = Undef
            /\ sent' = NoRequest
            /\ UNCHANGED <<url, videoData, loading, tab, downloadingMap, error,
                           videoFormats, audioFormats, fetches>>
       ELSE Settle(c, Err("Error", Undef,
                          "Server returned " \o status \o ": " \o StatusText(status),
                          Undef),
                   Undef)

\* handleDownload, line 133: fetch rejects, the network having failed.
RequestFails(c) ==
    /\ calls[c].st = "waiting"
    /\ lastEvent' = Event("download", "network", downloadId(calls[c].format), "")
    /\ Settle(c, Err("TypeError", Undef, "Failed to fetch", Undef), Undef)

\* A body check that takes every payload for a file.
BodyThrownNever(size) == NoErr

\* handleDownload, lines 148-150.
BodyThrown(size) ==
    IF size = "0"
    THEN Err("Error", Undef, "Received empty file from server", Undef)
    ELSE NoErr

\* handleDownload, lines 145-166: response.blob() resolves with a payload of
\* `size` bytes.
BodyArrives(c, size) ==
    /\ calls[c].st = "reading"
    /\ lastEvent' = Event("download", "body", downloadId(calls[c].format), size)
    /\ Settle(c, BodyThrown(size),
              IF BodyThrown(size).name = "none" THEN FileName(calls[c]) ELSE Undef)

\* handleDownload, line 145: response.blob() rejects, the transfer having
\* broken off.
BodyFails(c) ==
    /\ calls[c].st = "reading"
    /\ lastEvent' = Event("download", "network", downloadId(calls[c].format), "")
    /\ Settle(c, Err("TypeError", Undef, "network error", Undef), Undef)

\* 120 s have passed since the call in slot c set its timer, line 131.  A
\* timer that is still armed runs controller.abort(), and the fetch rejects
\* with an AbortError; a timer that line 138 has cleared runs nothing.
Deadline(c) ==
    /\ calls[c].st # "free"
    /\ ~calls[c].late
    /\ lastEvent' = Event("timer", "deadline", downloadId(calls[c].format),
                          IF calls[c].timer = "armed" THEN "abort" ELSE "cleared")
    /\ IF calls[c].timer = "armed"
       THEN Settle(c, Err("AbortError", Undef, "The user aborted a request.", Undef),
                   Undef)
       ELSE /\ calls' = [calls EXCEPT ![c].late = TRUE]
            /\ saved' = Undef
            /\ sent' = NoRequest
            /\ UNCHANGED <<url, videoData, loading, tab, downloadingMap, error,
                           videoFormats, audioFormats, fetches>>

Next ==
    \/ \E u \in Urls : EditUrl(u)
    \/ \E v \in {0, 1} : SetTab(v)
    \/ ClickFetch
    \/ PressEnter
    \/ \E s \in FetchSlots, ans \in InfoAnswers : FetchSettles(s, ans, InfoFormats)
    \/ \E f \in RowsShown : ClickDownload(f)
    \/ \E c \in CallSlots, status \in Statuses : Headers(c, status)
    \/ \E c \in CallSlots : RequestFails(c)
    \/ \E c \in CallSlots, size \in BodySizes : BodyArrives(c, size)
    \/ \E c \in CallSlots : BodyFails(c)
    \/ \E c \in CallSlots : Deadline(c)

Spec == Init /\ [][Next]_vars

\* The deadline comes for every call that has not settled: time passes.
\* Nothing obliges the endpoints to answer.
FairSpec == Spec /\ \A c \in CallSlots : WF_vars(Deadline(c))

(***************************************************************************)
(* The normalizer on arbitrary input: the user types a URL and fetches,    *)
(* and the info endpoint answers with any list of at most MaxLen formats.  *)
(***************************************************************************)
NormFormats ==
    {Format(Undef, ty, "mp4", Undef, abr, height) :
        ty \in {Undef, "video", "audio", "other"},
        abr \in {Undef, "128"}, height \in {Undef, "720"}}
      \cup {Format("137", ty, "mp4", Undef, abr, Undef) :
               ty \in {"video", "audio"}, abr \in {Undef, "128"}}
      \cup {Format("137", "video", "mp4", Undef, Undef, "720")}

RawLists == UNION {[1..n -> NormFormats] : n \in 0..MaxLen}

NormNext ==
    \/ EditUrl("u1")
    \/ ClickFetch
    \/ /\ fetches[1].st = "pending"
       /\ \E raw \in RawLists : FetchSettles(1, InfoAnswer("data", TRUE, Undef), raw)

NormSpec == Init /\ [][NormNext]_vars

\* The same with an endpoint whose every format carries an identifier.
IdFormats ==
    {Format("137", ty, "mp4", Undef, abr, height) :
        ty \in {Undef, "video", "audio", "other"},
        abr \in {Undef, "128"}, height \in {Undef, "720"}}
      \cup {Format("140", ty, "m4a", Undef, abr, Undef) :
               ty \in {"video", "audio"}, abr \in {Undef, "128"}}

IdLists == UNION {[1..n -> IdFormats] : n \in 0..MaxLen}

IdNext ==
    \/ EditUrl("u1")
    \/ ClickFetch
    \/ /\ fetches[1].st = "pending"
       /\ \E raw \in IdLists : FetchSettles(1, InfoAnswer("data", TRUE, Undef), raw)

IdSpec == Init /\ [][IdNext]_vars

(***************************************************************************)
(* Fetching alone, with two videos: the user edits the field, clicks Fetch *)
(* or presses Enter, and the info endpoint answers the outstanding calls   *)
(* in any order.                                                           *)
(***************************************************************************)
FetchUrls == Urls \cup {"u2"}

FetchNext ==
    \/ \E u \in FetchUrls : EditUrl(u)
    \/ ClickFetch
    \/ PressEnter
    \/ \E s \in FetchSlots, ans \in InfoAnswers : FetchSettles(s, ans, InfoFormats)

FetchSpec == Init /\ [][FetchNext]_vars

(***************************************************************************)
(* The properties.                                                         *)
(***************************************************************************)
\* The identity key of a format: its format identifier if it has one, else
\* the composite of type, extension, quality label, bitrate and height.
IdentityKey(f) ==
    IF f.format_id # Undef THEN <<"id", f.format_id>>
    ELSE <<"composite", f.type, f.ext, OrElse(f.qualityLabel, ""),
           OrElse(f.abr, ""), OrElse(f.height, "")>>

Outstanding == {c \in CallSlots : calls[c].st # "free"}

\* The ids the registry can hold for the formats of InfoFormats.
DownloadIds ==
    {downloadId(withTypes(InfoFormats)[i]) : i \in 1..Len(InfoFormats)}

\* Did the latest step settle a handleDownload call?
Settling(e) ==
    \/ e.src = "download" /\ e.kind \in {"network", "body"}
    \/ e.src = "download" /\ e.kind = "status" /\ e.text # "200"
    \/ e.src = "timer" /\ e.text = "abort"

\* C1: no two handleDownload calls that have not settled carry the same
\* registry key: at most one request per key is outstanding at any time.
C1_OneRequestPerKey ==
    \A c, d \in Outstanding :
        c # d => downloadId(calls[c].format) # downloadId(calls[d].format)

\* A call is outstanding, its row is on screen without a button, and a slot
\* is free for a second call.
C1_Witness ==
    \E c \in Outstanding :
        /\ calls[c].format \in RowsShown
        /\ ~ButtonShown(calls[c].format)
        /\ \E d \in CallSlots : calls[d].st = "free"

\* C2: a call that has not settled when its 120 s deadline comes, be it
\* waiting for the response or reading the body, is cancelled: no call is
\* unsettled past its deadline, and the deadline leaves the timeout error,
\* no saved file and an idle registry entry.
C2_DeadlineCancels ==
    /\ \A c \in Outstanding : ~calls[c].late
    /\ lastEvent.kind = "deadline" =>
          /\ error = "Download timeout. The video might be too large."
          /\ saved = Undef
          /\ ~IsDownloading(downloadingMap, lastEvent.id)

\* C3: every key that is marked busy is eventually idle again, whatever the
\* download endpoint does.
C3_NoTaskLeftInFlight ==
    \A k \in DownloadIds :
        IsDownloading(downloadingMap, k) ~> ~IsDownloading(downloadingMap, k)

\* C4: right after a handleDownload call has settled, in whichever way, the
\* registry holds false for the key of that call.
C4_SettledIsIdle ==
    Settling(lastEvent) =>
        /\ lastEvent.id \in DOMAIN downloadingMap
        /\ ~downloadingMap[lastEvent.id]

\* A call has just been settled by the deadline's abort.
C4_Witness ==
    /\ lastEvent.src = "timer"
    /\ lastEvent.text = "abort"
    /\ lastEvent.id \in DOMAIN downloadingMap
    /\ ~downloadingMap[lastEvent.id]

\* C5: when the info endpoint answers with an error field m and no formats,
\* the error shown is the fetch prefix followed by m, and the metadata slot
\* holds no formats.
C5_ErrorFieldSurfaced ==
    (lastEvent.src = "info" /\ lastEvent.kind = "data"
       /\ lastEvent.text \in ServerMessages) =>
        /\ error = "Failed to fetch video info. " \o lastEvent.text
        /\ ~videoData.hasFormats

\* C6: a download whose body arrives with length zero fails with the empty
\* payload error, saves nothing and leaves its registry entry idle.
C6_EmptyPayloadFails ==
    (lastEvent.kind = "body" /\ lastEvent.text = "0") =>
        /\ error = "Download failed: Received empty file from server"
        /\ saved = Undef
        /\ ~IsDownloading(downloadingMap, lastEvent.id)

\* A body of length zero has just arrived.
C6_Witness ==
    /\ lastEvent.kind = "body"
    /\ lastEvent.text = "0"
    /\ lastEvent.id \in DOMAIN downloadingMap
    /\ ~downloadingMap[lastEvent.id]
    /\ saved = Undef

\* C7: formats with different identity keys have different registry keys: a
\* format on screen is busy only while a call for its own identity key is
\* outstanding.
C7_KeysAgree ==
    \A g \in {videoFormats[i] : i \in 1..Len(videoFormats)}
               \cup {audioFormats[i] : i \in 1..Len(audioFormats)} :
        IsDownloading(downloadingMap, downloadId(g)) =>
            \E c \in Outstanding : IdentityKey(calls[c].format) = IdentityKey(g)

NoSharedKey(list) ==
    \A i, j \in 1..Len(list) :
        i # j => IdentityKey(list[i]) # IdentityKey(list[j])

\* C8: no two entries of videoFormats, and no two entries of audioFormats,
\* share an identity key.
C8_UniqueKeys == NoSharedKey(videoFormats) /\ NoSharedKey(audioFormats)

\* The raw list holds three entries of one type, two of them with the same
\* key, and the output holds two.
C8_Witness ==
    /\ Len(videoData.formats) = 3
    /\ Len(videoFormats) = 2
    /\ Len(audioFormats) = 0
    /\ ~NoSharedKey(withTypes(videoData.formats))

\* The index in list of the first entry with the identity key of f.
FirstIndex(list, f) ==
    CHOOSE i \in 1..Len(list) :
        /\ IdentityKey(list[i]) = IdentityKey(f)
        /\ \A j \in 1..(i - 1) : IdentityKey(list[j]) # IdentityKey(f)

\* out holds, for every identity key of input whose first entry satisfies
\* the type test, that first entry, in the order of the input.
FirstSeenStable(input, out, ty) ==
    /\ \A a \in 1..Len(out) :
         /\ \E i \in 1..Len(input) : IdentityKey(input[i]) = IdentityKey(out[a])
         /\ out[a] = input[FirstIndex(input, out[a])]
    /\ \A a, b \in 1..Len(out) :
         a < b => FirstIndex(input, out[a]) < FirstIndex(input, out[b])
    /\ \A i \in 1..Len(input) :
         (FirstIndex(input, input[i]) = i /\ input[i].type = ty) =>
             \E a \in 1..Len(out) : out[a] = input[i]

\* C9: the entry kept for an identity key is the first one of the input, and
\* the kept entries stand in the order of their first occurrence.
C9_FirstSeenWins ==
    LET input == withTypes(videoData.formats)
    IN  /\ FirstSeenStable(input, videoFormats, "video")
        /\ FirstSeenStable(input, audioFormats, "audio")

\* Two entries with the same identifier and different heights, and an entry
\* of another key between them: the output holds the first and the middle.
C9_Witness ==
    /\ Len(videoData.formats) = 3
    /\ IdentityKey(videoData.formats[1]) = IdentityKey(videoData.formats[3])
    /\ videoData.formats[1] # videoData.formats[3]
    /\ Len(videoFormats) = 2
    /\ videoFormats[1] = videoData.formats[1]

Occurrences(list, f) == Cardinality({i \in 1..Len(list) : list[i] = f})

\* C10: every entry that survives deduplication stands in exactly one of
\* videoFormats and audioFormats.
C10_PartitionComplete ==
    LET kept == normalizeFormats(videoData)
    IN  \A i \in 1..Len(kept) :
            Occurrences(videoFormats, kept[i]) + Occurrences(audioFormats, kept[i]) = 1

\* C11: on a list whose every entry carries a format identifier, normalizing
\* the normalized list gives the same entries, types and order again.
C11_Idempotent ==
    LET once == normalizeFormats(videoData)
    IN  normalizeFormats(Metadata(videoData.title, once)) = once

\* Three entries under two identifiers, one of them twice, of which one has
\* both markers and no declared type: two entries are kept.
C11_Witness ==
    /\ Len(videoData.formats) = 3
    /\ Len(normalizeFormats(videoData)) = 2
    /\ \E i \in 1..3 :
         /\ videoData.formats[i].type = Undef
         /\ Truthy(videoData.formats[i].abr)
         /\ Truthy(videoData.formats[i].height)
         /\ \E a \in 1..Len(videoFormats) :
              videoFormats[a].height = "720" /\ videoFormats[a].abr = "128"

\* The type the classification rule gives: markers first, then the declared
\* type, then video.
RuleType(f) ==
    LET videoMark == Truthy(f.height) \/ Truthy(f.vcodec)
        audioMark == Truthy(f.abr) \/ Truthy(f.acodec)
    IN  IF videoMark /\ ~audioMark THEN "video"
        ELSE IF audioMark /\ ~videoMark THEN "audio"
        ELSE OrElse(f.type, "video")

Elements(list) == {list[i] : i \in 1..Len(list)}

\* C12: every kept entry stands in the list of the type the rule gives it:
\* video for video markers only, audio for audio markers only, else the
\* declared type, and video when there is none.
C12_ClassifiedByRule ==
    \A i \in 1..Len(videoData.formats) :
        LET f == videoData.formats[i]
            g == [f EXCEPT !.type = RuleType(f)]
        IN  (\A j \in 1..(i - 1) :
                 IdentityKey(withTypes(videoData.formats)[j])
                   # IdentityKey(withTypes(videoData.formats)[i])) =>
              /\ RuleType(f) = "video" => g \in Elements(videoFormats)
              /\ RuleType(f) = "audio" => g \in Elements(audioFormats)

\* s.startsWith(t)
StartsWith(s, t) == Len(s) >= Len(t) /\ SubSeq(s, 1, Len(t)) = t

\* Did the latest step end a handleFetch call in failure?
FetchFailed(e) == e.src = "info" /\ e.text # "formats"

\* Did the latest step end a handleDownload call in failure?
DownloadFailed(e) == Settling(e) /\ ~(e.kind = "body" /\ e.text # "0")

\* C13: every failure message of handleFetch starts with "Failed to fetch
\* video info." and every failure message of handleDownload, the one of the
\* deadline included, starts with "Download failed:".
C13_StablePrefixes ==
    /\ FetchFailed(lastEvent) => StartsWith(error, "Failed to fetch video info.")
    /\ DownloadFailed(lastEvent) => StartsWith(error, "Download failed:")

\* C14: a step in which a download fails leaves the metadata slot, the
\* registry entries of all other keys and the calls of all other keys as
\* they were.
C14_FailureScoped ==
    [][DownloadFailed(lastEvent') =>
         /\ videoData' = videoData
         /\ \A k \in (DOMAIN downloadingMap \cup DOMAIN downloadingMap') \ {lastEvent'.id} :
              /\ k \in DOMAIN downloadingMap
              /\ k \in DOMAIN downloadingMap'
              /\ downloadingMap'[k] = downloadingMap[k]
         /\ \A c \in CallSlots :
              (calls[c].st # "free" /\ downloadId(calls[c].format) # lastEvent'.id)
                 => calls'[c] = calls[c]]_vars

\* A download has just failed while a download of another key is in flight
\* and metadata is shown.
C14_Witness ==
    /\ DownloadFailed(lastEvent)
    /\ videoData.hasFormats
    /\ \E c \in Outstanding :
         /\ downloadId(calls[c].format) # lastEvent.id
         /\ IsDownloading(downloadingMap, downloadId(calls[c].format))

\* C15: a step in which a metadata fetch fails leaves the metadata slot
\* empty, sets an error message, and leaves the registry and the download
\* calls as they were.
C15_FetchFailureClears ==
    [][FetchFailed(lastEvent') =>
         /\ videoData'.tag = "object"
         /\ videoData'.title = Undef
         /\ ~videoData'.hasFormats
         /\ videoFormats' = <<>> /\ audioFormats' = <<>>
         /\ error' # ""
         /\ downloadingMap' = downloadingMap
         /\ calls' = calls]_vars

\* A metadata fetch has just failed while a download is in flight.
C15_Witness ==
    /\ FetchFailed(lastEvent)
    /\ error # ""
    /\ \E c \in Outstanding :
         IsDownloading(downloadingMap, downloadId(calls[c].format))

\* C17: a handleFetch call made with an empty or white-space url starts no
\* request and leaves the metadata slot, the loading flag, the error message
\* and the registry as they were.
C17_BlankFetchNoop ==
    [][(lastEvent'.kind = "handleFetch" /\ lastEvent'.id \in {"", " "}) =>
         UNCHANGED <<videoData, loading, error, downloadingMap, fetches,
                     calls, videoFormats, audioFormats>>]_vars

\* handleFetch has just been called with a white-space url while metadata
\* is shown and a download is in flight.
C17_Witness ==
    /\ lastEvent.kind = "handleFetch"
    /\ lastEvent.id = " "
    /\ videoData.hasFormats
    /\ Outstanding # {}

\* The url whose fetch produced the metadata vd holds.
SourceOf(vd) == CHOOSE u \in Urls : TitleOf(u) = vd.title

\* C18: the url sent in a download request is the url from which the
\* metadata on display was fetched.
C18_SourceUrlOfMetadata ==
    sent # NoRequest => sent.url = SourceOf(videoData)

\* C19: while a download request of a key is outstanding, the registry entry
\* of the key is true.
C19_OutstandingIsBusy ==
    \A c \in Outstanding :
        IsDownloading(downloadingMap, downloadId(calls[c].format))

\* A download has just settled while a download of another key is
\* outstanding.
C19_Witness ==
    /\ Settling(lastEvent)
    /\ \E c \in Outstanding : downloadId(calls[c].format) # lastEvent.id
    /\ IsDownloading(downloadingMap, lastEvent.id) = FALSE

\* C20: loading is true whenever a metadata fetch is outstanding.
C20_LoadingWhileFetching ==
    (\E s \in FetchSlots : fetches[s].st = "pending") => loading

\* What the handleFetch call that ended with event e stores in the slot.
OutcomeOf(e) ==
    IF e.text = "formats"
    THEN Metadata(TitleOf(e.id), InfoFormats)
    ELSE EmptyObject

\* C16: with overlapping handleFetch calls the metadata slot holds the
\* outcome of the call that completed last: every completion stores its own
\* outcome, whatever else is outstanding, and the slot keeps it until a
\* handleFetch call starts or completes.
C16_LastCompletedWins ==
    [][IF lastEvent'.src = "info"
       THEN videoData' = OutcomeOf(lastEvent')
       ELSE fetches' = fetches => videoData' = videoData]_vars

\* The call for u2, started while the call for u1 was loading, has
\* completed first and the call for u1 is still outstanding.
C16_Witness ==
    /\ fetches[1] = [st |-> "pending", url |-> "u1"]
    /\ fetches[2].st = "free"
    /\ lastEvent.src = "info"
    /\ lastEvent.id = "u2"
    /\ videoData = Metadata(TitleOf("u2"), InfoFormats)

====
